---- MODULE Spec2Model ----
(***************************************************************************)
(* A model of yahoofsapi/yahoo.py: the Scraper (URL construction and the   *)
(* query/refresh cycle) and the Parser (projection of XML into records).   *)
(*                                                                         *)
(* Python values are records [t, s]: t is the Python type, s is str(value).*)
(* Lists and dicts are records [t, items].  A URL is a sequence of path    *)
(* segments ("/"-separated); a segment is a sequence of ";"-separated      *)
(* parts, each a string.                                                   *)
(***************************************************************************)
EXTENDS Integers, Sequences, FiniteSets, TLC

VARIABLES
    phase,            \* "new" before Scraper(...), then "ready" or "failed"
    sport,            \* self.sport
    yahoo_season,     \* self.yahoo_season
    game_key,         \* self.game_key
    response_format,  \* self.response_format
    access_token,     \* self.auth["access_token"], as a generation number
    call,             \* the Router call in progress at the caller
    filt_a, filt_b,   \* two filter dicts handed to _filtstr
    filt_out,         \* the strings _filtstr returned for them
    content,          \* the document handed to the Parser
    key_arg,          \* the game_key handed to it along with the document
    parsed,           \* what the Parser call produced
    data,             \* Parser.data: the records last parsed, per kind
    parses,           \* the parse calls made on the Parser so far
    threads           \* per thread: its parse call and how far it has got

vars == <<phase, sport, yahoo_season, game_key, response_format, access_token,
          call, filt_a, filt_b, filt_out, content, key_arg, parsed, data,
          parses, threads>>

routerVars == <<phase, sport, yahoo_season, game_key, response_format,
                access_token, call>>
filtVars == <<filt_a, filt_b, filt_out>>
parserVars == <<content, key_arg, parsed, data, parses, threads>>

-----------------------------------------------------------------------------
(* Bounds *)

\* longest key list handed to a Router operation
MaxKeys == 2
\* most entries in a filter dict
MaxFilters == 2
\* access-token generations (caps credential refreshes)
MaxToken == 2
\* most stat entries in one stats block
MaxStats == 2
\* most parse calls made one after the other on one Parser
MaxParses == 2

-----------------------------------------------------------------------------
(* Python values *)

None == [t |-> "NoneType", s |-> "None"]
PyStr(x) == [t |-> "str", s |-> x]
PyInt(n) == [t |-> "int", s |-> ToString(n)]

NoneL == [t |-> "NoneType", items |-> <<>>]
PyList(xs) == [t |-> "list", items |-> xs]
PyDict(kvs) == [t |-> "dict", items |-> kvs]

\* bool(v) for a scalar: None, "" and 0 are false
Truthy(v) == v.t # "NoneType" /\ v.s # "" /\ ~(v.t = "int" /\ v.s = "0")

\* bool(v) for a list or a dict: None and the empty container are false
TruthyL(l) == l.t # "NoneType" /\ Len(l.items) > 0

RECURSIVE JoinStr(_, _)
\* sep.join(xs) for a sequence of strings
JoinStr(xs, sep) ==
    IF Len(xs) = 0 THEN ""
    ELSE IF Len(xs) = 1 THEN xs[1]
    ELSE xs[1] \o sep \o JoinStr(Tail(xs), sep)

Last(s) == s[Len(s)]

\* all sequences over S of length at most n
SeqsUpTo(S, n) == UNION {[1..m -> S] : m \in 0..n}

-----------------------------------------------------------------------------
(* The validation tables (the *_subresources and *_filters properties) *)

game_subresources ==
    {"metadata", "leagues", "players", "game_weeks", "stat_categories",
     "position_types", "roster_positions"}

games_subresources == game_subresources \cup {"teams"}

games_filters == {"is_available", "game_types", "game_codes", "seasons"}

league_subresources ==
    {"metadata", "settings", "standings", "scoreboard", "teams", "players",
     "draftresults", "transactions"}

player_subresources ==
    {"metadata", "stats", "ownership", "percent_owned", "draft_analysis"}

players_filters ==
    {"position", "status", "search", "sort", "sort_type", "sort_season",
     "sort_date", "start", "count"}

players_subresources == player_subresources

roster_subresources == {"players"}

team_subresources ==
    {"metadata", "stats", "standings", "roster", "draftresults", "matchups"}

teams_subresources == team_subresources

transaction_filters == {"type", "types", "team_key", "count"}

transactions_filters == transaction_filters

transaction_subresources == {"metadata", "players"}

transactions_subresources == transaction_subresources

-----------------------------------------------------------------------------
(* _filtstr *)

\* the filter keys in ascending order of Python's str comparison
KeysAscending ==
    <<"bogus", "count", "game_codes", "game_types", "is_available",
      "position", "search", "seasons", "sort", "sort_date", "sort_season",
      "sort_type", "start", "status", "team_key", "type", "types">>

Rank(k) == CHOOSE i \in 1..Len(KeysAscending) : KeysAscending[i] = k

\* a < b on two str keys
StrLess(a, b) == Rank(a) < Rank(b)

\* filters.keys(): the keys in insertion order
DictKeys(d) == [i \in 1..Len(d.items) |-> d.items[i].k]

\* filters[k]
DictGet(d, k) ==
    LET i == CHOOSE j \in 1..Len(d.items) : d.items[j].k = k
    IN d.items[i].v

\* the keys in insertion order, unsorted
UnsortedKeys(d) == DictKeys(d)

\* sorted(filters.keys())
SortedKeys(d) == SortSeq(DictKeys(d), StrLess)

_filtstr(filters) ==
    LET ks == SortedKeys(filters)
        vals == [i \in 1..Len(ks) |-> ks[i] \o "=" \o DictGet(filters, ks[i]).s]
    IN JoinStr(vals, ",")

\* set(filters.keys()) <= set(allowed)
KeysWithin(filters, allowed) ==
    \A i \in 1..Len(filters.items) : filters.items[i].k \in allowed

-----------------------------------------------------------------------------
(* Keys and URLs *)

fantasy_uri == "https://fantasysports.yahooapis.com/fantasy/v2"

\* the (sport, season) pairs of game_key_d
game_key_d ==
    [nba |-> {<<2017, 375>>, <<2018, 385>>}, nfl |-> {<<2018, 380>>}]

\* game_key_d.get(sport).get(season): "AttributeError" when the sport is
\* unknown (None has no .get), None when only the season is unknown
_game_key(sp, season) ==
    IF sp \notin DOMAIN game_key_d
    THEN [err |-> "AttributeError", val |-> None]
    ELSE IF \E p \in game_key_d[sp] : p[1] = season
    THEN [err |-> "",
          val |-> PyInt((CHOOSE p \in game_key_d[sp] : p[1] = season)[2])]
    ELSE [err |-> "", val |-> None]

_league_key(gk, league_id) == gk.s \o ".l." \o league_id.s

\* f"{self.fantasy_uri}/{resource}"
_url(resource) == <<<<fantasy_uri>>, <<resource>>>>

\* url + "/" + seg
Slash(url, seg) == Append(url, <<seg>>)

\* url + ";" + part
Semi(url, part) == [url EXCEPT ![Len(url)] = Append(@, part)]

Ok(url) == [err |-> "", url |-> url]
Raise(e) == [err |-> e, url |-> <<>>]

-----------------------------------------------------------------------------
(* The Router operations, up to the call of query(): each yields the URL   *)
(* it would query, or the exception it raises before querying.             *)

\* ",".join(keys): a TypeError when keys is None
KeyStr(keys) == JoinStr(keys.items, ",")

game(gk, subresource, keys) ==
    IF subresource \notin game_subresources THEN Raise("InvalidSubresource")
    ELSE IF subresource \in {"leagues", "players"}
    THEN IF ~TruthyL(keys) THEN Raise("MissingKeys")
         ELSE IF subresource = "leagues"
         THEN Ok(Semi(Slash(Slash(_url("game"), gk.s), "leagues"),
                      "league_keys=" \o KeyStr(keys)))
         ELSE Ok(Semi(Slash(Slash(_url("game"), gk.s), "players"),
                      "player_keys=" \o KeyStr(keys)))
    ELSE Ok(Slash(Slash(_url("game"), gk.s), subresource))

games(gk, subresource, filters, keys) ==
    IF subresource \notin games_subresources THEN Raise("InvalidSubresource")
    ELSE IF TruthyL(filters)
    THEN IF KeysWithin(filters, games_filters)
         THEN Ok(Semi(_url("games"), _filtstr(filters)))
         ELSE Raise("InvalidFilter")
    ELSE IF subresource \in {"leagues", "players"}
    THEN IF keys.t = "NoneType" THEN Raise("TypeError")
         ELSE IF subresource = "leagues"
         THEN Ok(Semi(Slash(Semi(_url("games"), "game_keys=" \o gk.s), "leagues"),
                      "league_keys=" \o KeyStr(keys)))
         ELSE Ok(Semi(Slash(Semi(_url("games"), "game_keys=" \o gk.s), "players"),
                      "player_keys=" \o KeyStr(keys)))
    ELSE Ok(Slash(Semi(_url("games"), "game_keys=" \o gk.s), subresource))

league(gk, league_id, subresource) ==
    IF subresource \notin league_subresources THEN Raise("InvalidSubresource")
    ELSE Ok(Slash(Slash(_url("league"), _league_key(gk, league_id)), subresource))

league_free_agents(gk, league_id, start, subresource, status, sort, sort_type) ==
    Ok(Semi(Semi(Semi(Semi(
        Slash(Slash(_url("league"), _league_key(gk, league_id)), subresource),
        "status=" \o status.s), "sort=" \o sort.s),
        "sort_type=" \o sort_type.s), "start=" \o start.s))

leagues(league_keys, subresource) ==
    IF subresource \notin league_subresources THEN Raise("InvalidSubresource")
    ELSE IF league_keys.t = "NoneType" THEN Raise("TypeError")
    ELSE Ok(Slash(Semi(_url("leagues"), "league_keys=" \o KeyStr(league_keys)),
                  subresource))

player(player_key, subresource) ==
    IF subresource \notin player_subresources THEN Raise("InvalidSubresource")
    ELSE Ok(Slash(Slash(_url("player"), player_key.s), subresource))

player_stats(gk, league_id, player_keys) ==
    IF player_keys.t = "NoneType" THEN Raise("TypeError")
    ELSE Ok(Slash(Semi(Slash(Slash(_url("league"), _league_key(gk, league_id)),
                             "players"),
                       "player_keys=" \o KeyStr(player_keys)), "stats"))

\* lines 703-706: the filter string, left empty when a key is not allowed
players_filt_str(filters) ==
    IF TruthyL(filters) /\ KeysWithin(filters, players_filters)
    THEN _filtstr(filters) ELSE ""

players(gk, league_id, league_ids, team_key, team_keys, player_keys, subresource, filters) ==
    LET filt_str == players_filt_str(filters) IN
    IF Truthy(league_id)
    THEN Ok(Slash(Semi(Slash(Slash(_url("league"), _league_key(gk, league_id)),
                             "players"), filt_str), subresource))
    ELSE IF TruthyL(league_ids)
    THEN LET lks == [i \in 1..Len(league_ids.items) |->
                        gk.s \o ".l." \o league_ids.items[i]]
         IN Ok(Slash(Semi(Slash(Semi(_url("leagues"),
                                     "league_keys=" \o JoinStr(lks, ",")),
                                "players"), filt_str), subresource))
    ELSE IF Truthy(team_key)
    THEN Ok(Slash(Semi(Slash(Slash(_url("team"), team_key.s), "players"),
                       filt_str), subresource))
    ELSE IF TruthyL(team_keys)
    THEN Ok(Slash(Semi(Slash(Semi(_url("teams"), KeyStr(team_keys)), "players"),
                       filt_str), subresource))
    ELSE IF TruthyL(player_keys)
    THEN Ok(Slash(Semi(Semi(_url("players"),
                            "player_keys=" \o KeyStr(player_keys)), filt_str),
                  subresource))
    ELSE Raise("UnboundLocalError")

roster(team_key, subresource, roster_date) ==
    IF subresource \notin roster_subresources THEN Raise("InvalidSubresource")
    ELSE LET url == Slash(Slash(Slash(_url("team"), team_key.s), "roster"),
                          subresource)
         IN IF Truthy(roster_date) THEN Ok(Semi(url, "date={roster_date}"))
            ELSE Ok(url)

team(team_key, subresource) ==
    IF subresource \notin team_subresources THEN Raise("InvalidSubresource")
    ELSE Ok(Slash(Slash(_url("team"), team_key.s), subresource))

teams(gk, league_id, team_keys, my_team, subresource) ==
    IF subresource \notin teams_subresources THEN Raise("InvalidSubresource")
    ELSE IF Truthy(league_id)
    THEN Ok(Slash(Slash(Slash(_url("league"), _league_key(gk, league_id)),
                        "teams"), subresource))
    ELSE IF TruthyL(team_keys)
    THEN Ok(Slash(Semi(_url("teams"), "team_keys=" \o KeyStr(team_keys)),
                  subresource))
    ELSE IF my_team
    THEN Ok(Slash(Slash(Semi(_url("users"), "use_login=1"), "teams"),
                  subresource))
    ELSE Raise("MissingAddressing")

transaction(transaction_key, subresource) ==
    IF subresource \notin transaction_subresources
    THEN Raise("InvalidSubresource")
    ELSE Ok(Slash(Slash(_url("transaction"), transaction_key.s), subresource))

transactions(gk, league_id, subresource, filters) ==
    IF subresource \notin transactions_subresources
    THEN Raise("InvalidSubresource")
    ELSE IF TruthyL(filters)
    THEN IF KeysWithin(filters, transactions_filters)
         THEN Ok(Slash(Semi(Slash(Slash(_url("league"),
                                        _league_key(gk, league_id)),
                                  "transactions"), _filtstr(filters)),
                       subresource))
         ELSE Raise("InvalidFilter")
    ELSE Ok(Slash(Slash(Slash(_url("league"), _league_key(gk, league_id)),
                        "transactions"), subresource))

user(gk, subresource) ==
    Ok(Slash(Semi(Slash(Semi(_url("users"), "use_login=1"), "games"),
                  "game_keys=" \o gk.s), subresource))

users(subresource) ==
    Ok(Slash(Semi(_url("users"), "use_login=1"), subresource))

-----------------------------------------------------------------------------
(* query() and the credentials *)

\* what the transport hands back: a normal body, an error whose description
\* holds "Please provide valid credentials", or any other error
Responses == {"ok", "autherr", "othererr"}

\* {"format": response_format}, as __init__ stores it
FormatDict(f) == [t |-> "dict", s |-> f]

\* self.response_format == "json"
IsJson(fmt) == fmt.t = "str" /\ fmt.s = "json"

\* the access token after _refresh_credentials()
_refresh_credentials(token) == token + 1

\* one request: token is the access token inside the Authorization header
\* it carries, current is self.auth["access_token"] when it is sent
Fetch(method, url, token, current, resp) ==
    [method |-> method, url |-> url, token |-> token, current |-> current,
     resp |-> resp]

\* query(url) when the transport answers resp1, then resp2: the requests
\* sent, the refreshes made, the token left in self.auth, the value returned.
\* hdr is built once, before the first request, and sent again on the retry.
query(url, fmt, token, resp1, resp2) ==
    IF IsJson(fmt)
    THEN IF resp1 = "autherr"
         THEN [fetches |-> <<Fetch("get_json", url, token, token, resp1),
                             Fetch("get_json", url, token,
                                   _refresh_credentials(token), resp2)>>,
               refreshes |-> 1,
               token |-> _refresh_credentials(token),
               ret |-> resp2]
         ELSE [fetches |-> <<Fetch("get_json", url, token, token, resp1)>>,
               refreshes |-> 0, token |-> token, ret |-> "None"]
    ELSE [fetches |-> <<Fetch("get", url, token, token, resp1)>>,
          refreshes |-> 0, token |-> token, ret |-> resp1]

\* an operation that raised never reaches query()
NoQuery(token) ==
    [fetches |-> <<>>, refreshes |-> 0, token |-> token, ret |-> "raised"]

-----------------------------------------------------------------------------
(* Inputs *)

Sports == {"nba", "mlb"}
Seasons == {2018, 2019}
GameKeyInputs == {None, PyStr("385")}
FormatInputs == {"xml", "json"}

SubresourceInputs == {"metadata", "leagues", "players", "teams", "stats", "bogus"}

KeyListInputs ==
    {NoneL} \cup {PyList(xs) : xs \in SeqsUpTo({"k1"}, MaxKeys)}

OneKeyList == {NoneL, PyList(<<"k1">>)}

EmptyOrOneKeyList == {NoneL, PyList(<<>>), PyList(<<"k1">>)}

PlayersSubresourceInputs == {"metadata", "stats", "bogus"}

\* per family: one allowed filter key and one foreign key
GamesFilterKeys == {"seasons", "bogus"}
PlayersFilterKeys == {"count", "bogus"}
TransactionsFilterKeys == {"count", "bogus"}

\* the dicts with at most n entries over the keys K and the values V
DictsUpTo(K, V, n) ==
    {PyDict(kvs) : kvs \in
        {q \in SeqsUpTo([k : K, v : V], n) :
            \A i, j \in 1..Len(q) : i # j => q[i].k # q[j].k}}

FilterInputs(K) == {NoneL} \cup DictsUpTo(K, {PyInt(1)}, MaxFilters)

NoArgs ==
    [subresource |-> "", keys |-> NoneL, filters |-> NoneL,
     league_id |-> None, league_ids |-> NoneL, team_key |-> None,
     team_keys |-> NoneL, player_keys |-> NoneL, my_team |-> FALSE,
     roster_date |-> None]

IdleCall ==
    [op |-> "idle", args |-> NoArgs, err |-> "", url |-> <<>>,
     fetches |-> <<>>, refreshes |-> 0, ret |-> ""]

-----------------------------------------------------------------------------
(* The Scraper as a state machine *)

InitRouter ==
    /\ phase = "new"
    /\ sport = ""
    /\ yahoo_season = 0
    /\ game_key = None
    /\ response_format = FormatDict("xml")
    /\ access_token = 0
    /\ call = IdleCall

\* Scraper(authfn, sport, yahoo_season, game_key, response_format)
Construct(sp, season, gk, fmt) ==
    /\ phase = "new"
    /\ LET k == IF Truthy(gk) THEN [err |-> "", val |-> gk]
                ELSE _game_key(sp, season)
       IN /\ phase' = IF k.err = "" THEN "ready" ELSE "failed"
          /\ game_key' = k.val
          /\ access_token' = IF k.err = "" THEN 1 ELSE 0
    /\ sport' = sp
    /\ yahoo_season' = season
    /\ response_format' = FormatDict(fmt)
    /\ UNCHANGED <<call, filtVars, parserVars>>

\* scraper.response_format = value, as the callers assign it
SetResponseFormat(v) ==
    /\ phase = "ready"
    /\ call.op = "idle"
    /\ response_format # v
    /\ response_format' = v
    /\ UNCHANGED <<phase, sport, yahoo_season, game_key, access_token, call,
                   filtVars, parserVars>>

\* the Scraper exists and the caller is between two calls
CanCall == phase = "ready" /\ call.op = "idle"

\* one Router operation, from its validation to the return of query()
Issue(op, args, r, resp1, resp2) ==
    /\ LET q == IF r.err = ""
               THEN query(r.url, response_format, access_token, resp1, resp2)
               ELSE NoQuery(access_token)
       IN /\ q.token <= MaxToken
          /\ call' = [op |-> op, args |-> args, err |-> r.err, url |-> r.url,
                      fetches |-> q.fetches, refreshes |-> q.refreshes,
                      ret |-> q.ret]
          /\ access_token' = q.token
    /\ UNCHANGED <<phase, sport, yahoo_season, game_key, response_format,
                   filtVars, parserVars>>

\* the caller takes the returned value (or the exception) and goes on
CallerReturns ==
    /\ call.op # "idle"
    /\ call' = IdleCall
    /\ UNCHANGED <<phase, sport, yahoo_season, game_key, response_format,
                   access_token, filtVars, parserVars>>

Game ==
    /\ CanCall
    /\ \E s \in SubresourceInputs, k \in KeyListInputs, r1, r2 \in Responses :
        Issue("game", [NoArgs EXCEPT !.subresource = s, !.keys = k],
              game(game_key, s, k), r1, r2)

Games ==
    /\ CanCall
    /\ \E s \in SubresourceInputs, f \in FilterInputs(GamesFilterKeys),
          k \in KeyListInputs,
       r1, r2 \in Responses :
        Issue("games",
              [NoArgs EXCEPT !.subresource = s, !.filters = f, !.keys = k],
              games(game_key, s, f, k), r1, r2)

League ==
    /\ CanCall
    /\ \E s \in SubresourceInputs, r1, r2 \in Responses :
        Issue("league", [NoArgs EXCEPT !.subresource = s, !.league_id = PyInt(1)],
              league(game_key, PyInt(1), s), r1, r2)

LeagueFreeAgents ==
    /\ CanCall
    /\ \E s \in SubresourceInputs, r1, r2 \in Responses :
        Issue("league_free_agents",
              [NoArgs EXCEPT !.subresource = s, !.league_id = PyInt(1)],
              league_free_agents(game_key, PyInt(1), PyInt(0), s, PyStr("A"),
                                 PyStr("AR"), PyStr("lastmonth")), r1, r2)

Leagues ==
    /\ CanCall
    /\ \E s \in SubresourceInputs, k \in KeyListInputs, r1, r2 \in Responses :
        Issue("leagues", [NoArgs EXCEPT !.subresource = s, !.keys = k],
              leagues(k, s), r1, r2)

Player ==
    /\ CanCall
    /\ \E s \in SubresourceInputs, r1, r2 \in Responses :
        Issue("player", [NoArgs EXCEPT !.subresource = s],
              player(PyStr("385.p.1"), s), r1, r2)

PlayerStats ==
    /\ CanCall
    /\ \E k \in KeyListInputs, r1, r2 \in Responses :
        Issue("player_stats",
              [NoArgs EXCEPT !.league_id = PyInt(1), !.player_keys = k],
              player_stats(game_key, PyInt(1), k), r1, r2)

Players ==
    /\ CanCall
    /\ \E lid \in {None, PyInt(1)}, lids \in {NoneL, PyList(<<"1">>)},
       tk \in {None, PyStr("385.l.1.t.1")}, tks \in OneKeyList,
       pks \in EmptyOrOneKeyList, s \in PlayersSubresourceInputs,
       f \in FilterInputs(PlayersFilterKeys),
       r1, r2 \in Responses :
        Issue("players",
              [NoArgs EXCEPT !.league_id = lid, !.league_ids = lids,
                             !.team_key = tk, !.team_keys = tks,
                             !.player_keys = pks, !.subresource = s,
                             !.filters = f],
              players(game_key, lid, lids, tk, tks, pks, s, f), r1, r2)

Roster ==
    /\ CanCall
    /\ \E s \in SubresourceInputs, d \in {None, PyStr("2018-11-05")},
       r1, r2 \in Responses :
        Issue("roster",
              [NoArgs EXCEPT !.subresource = s, !.roster_date = d,
                             !.team_key = PyStr("385.l.1.t.1")],
              roster(PyStr("385.l.1.t.1"), s, d), r1, r2)

Team ==
    /\ CanCall
    /\ \E s \in SubresourceInputs, r1, r2 \in Responses :
        Issue("team",
              [NoArgs EXCEPT !.subresource = s, !.team_key = PyStr("385.l.1.t.1")],
              team(PyStr("385.l.1.t.1"), s), r1, r2)

Teams ==
    /\ CanCall
    /\ \E lid \in {None, PyInt(1)}, tks \in KeyListInputs, mine \in BOOLEAN,
       s \in SubresourceInputs, r1, r2 \in Responses :
        Issue("teams",
              [NoArgs EXCEPT !.league_id = lid, !.team_keys = tks,
                             !.my_team = mine, !.subresource = s],
              teams(game_key, lid, tks, mine, s), r1, r2)

Transaction ==
    /\ CanCall
    /\ \E s \in SubresourceInputs, r1, r2 \in Responses :
        Issue("transaction", [NoArgs EXCEPT !.subresource = s],
              transaction(PyStr("385.l.1.tr.1"), s), r1, r2)

Transactions ==
    /\ CanCall
    /\ \E s \in SubresourceInputs, f \in FilterInputs(TransactionsFilterKeys),
          r1, r2 \in Responses :
        Issue("transactions",
              [NoArgs EXCEPT !.subresource = s, !.filters = f,
                             !.league_id = PyInt(1)],
              transactions(game_key, PyInt(1), s, f), r1, r2)

User ==
    /\ CanCall
    /\ \E s \in {"", "leagues", "teams"}, r1, r2 \in Responses :
        Issue("user", [NoArgs EXCEPT !.subresource = s],
              user(game_key, s), r1, r2)

Users ==
    /\ CanCall
    /\ \E s \in {"", "leagues", "teams"}, r1, r2 \in Responses :
        Issue("users", [NoArgs EXCEPT !.subresource = s], users(s), r1, r2)

\* the values a caller assigns: the dict __init__ builds, or the bare str
\* that query() compares against
FormatValues ==
    {FormatDict(f) : f \in FormatInputs} \cup {PyStr("json")}

NextRouter ==
    \/ \E sp \in Sports, season \in Seasons, gk \in GameKeyInputs,
          fmt \in FormatInputs : Construct(sp, season, gk, fmt)
    \/ \E v \in FormatValues : SetResponseFormat(v)
    \/ Game \/ Games \/ League \/ LeagueFreeAgents \/ Leagues
    \/ Player \/ PlayerStats \/ Players \/ Roster \/ Team \/ Teams
    \/ Transaction \/ Transactions \/ User \/ Users
    \/ CallerReturns

InitFilt == filt_a = NoneL /\ filt_b = NoneL /\ filt_out = <<>>
NoDoc == [players |-> <<>>, teams |-> <<>>]
NotParsed == [kind |-> "", err |-> "", records |-> <<>>]

\* the threads that share one Parser
Threads == {"t1", "t2"}

\* a thread that has not called the Parser
NoThread == [pc |-> "idle", doc |-> NoDoc, gk |-> None, result |-> NotParsed]

InitParser ==
    /\ content = NoDoc
    /\ key_arg = None
    /\ parsed = NotParsed
    /\ data = <<>>
    /\ parses = 0
    /\ threads = [t \in Threads |-> NoThread]

Init == InitRouter /\ InitFilt /\ InitParser

Next == NextRouter

Spec == Init /\ [][Next]_vars

-----------------------------------------------------------------------------
(* Claims about the Router, checked under Spec *)

\* the valid sub-resource list of the family an operation belongs to
ValidSubresources(op) ==
    CASE op = "game" -> game_subresources
      [] op = "games" -> games_subresources
      [] op \in {"league", "leagues", "league_free_agents"} -> league_subresources
      [] op = "player" -> player_subresources
      [] op = "players" -> players_subresources
      [] op = "roster" -> roster_subresources
      [] op = "team" -> team_subresources
      [] op = "teams" -> teams_subresources
      [] op = "transaction" -> transaction_subresources
      [] op = "transactions" -> transactions_subresources
      [] OTHER -> {"", "leagues", "teams"}

\* the allowed filter keys of a filter-accepting family
AllowedFilters(op) ==
    CASE op = "games" -> games_filters
      [] op = "players" -> players_filters
      [] OTHER -> transactions_filters

SubresourceOps ==
    {"game", "games", "league", "leagues", "league_free_agents", "player",
     "players", "roster", "team", "teams", "transaction", "transactions"}

SubresourceValid == call.args.subresource \in ValidSubresources(call.op)

\* how many addressing modes the call supplied
AddressingModes ==
    LET a == call.args
        n(b) == IF b THEN 1 ELSE 0
    IN IF call.op = "teams"
       THEN n(Truthy(a.league_id)) + n(TruthyL(a.team_keys)) + n(a.my_team)
       ELSE n(Truthy(a.league_id)) + n(TruthyL(a.league_ids))
            + n(Truthy(a.team_key)) + n(TruthyL(a.team_keys))
            + n(TruthyL(a.player_keys))

\* the name of the final path segment of the URL the call composed
FinalSegmentName == Head(Last(call.url))

\* C1: an operation given a sub-resource outside its family's list raises
\* the invalid-sub-resource error and issues no fetch.
C1_InvalidSubresourceRejected ==
    (call.op \in SubresourceOps /\ ~SubresourceValid)
        => (call.err = "InvalidSubresource" /\ call.fetches = <<>>)

\* C2: games, players and transactions, given a filter mapping with a key
\* outside the family's allowed keys (in a call whose sub-resource and
\* addressing are valid), raise the invalid-filter error and issue no fetch.
C2_ForeignFilterRejected ==
    (/\ call.op \in {"games", "players", "transactions"}
     /\ SubresourceValid
     /\ (call.op = "players" => AddressingModes = 1)
     /\ TruthyL(call.args.filters)
     /\ ~KeysWithin(call.args.filters, AllowedFilters(call.op)))
        => (call.err = "InvalidFilter" /\ call.fetches = <<>>)

\* C3: teams and players, given more than one addressing mode (and a valid
\* sub-resource and filters), raise the addressing error and issue no fetch.
C3_AmbiguousAddressingRejected ==
    (/\ call.op \in {"teams", "players"}
     /\ SubresourceValid
     /\ ~TruthyL(call.args.filters)
     /\ AddressingModes > 1)
        => (call.err = "MissingAddressing" /\ call.fetches = <<>>)

\* C4: teams and players, given no addressing mode (and a valid
\* sub-resource), fail with the missing-addressing validation error and
\* issue no fetch.
C4_MissingAddressingRejected ==
    (/\ call.op \in {"teams", "players"}
     /\ SubresourceValid
     /\ ~TruthyL(call.args.filters)
     /\ AddressingModes = 0)
        => (call.err = "MissingAddressing" /\ call.fetches = <<>>)

\* C5: when the first response of a query reports invalid credentials, the
\* credentials are refreshed once and the same URL is sent once more, and
\* a second authentication failure is handed to the caller; for every
\* response format.
C5_RefreshAndRetryOnce ==
    (/\ call.op # "idle"
     /\ Len(call.fetches) >= 1
     /\ call.fetches[1].resp = "autherr")
        => (/\ call.refreshes = 1
            /\ Len(call.fetches) = 2
            /\ call.fetches[2].url = call.fetches[1].url
            /\ (call.fetches[2].resp = "autherr" => call.ret = "autherr"))

\* C6: for a valid sub-resource, valid keys and valid (possibly empty)
\* filters, the final path segment of the composed URL is named by the
\* sub-resource.
C6_SubresourceIsFinalSegment ==
    (/\ call.op \in SubresourceOps
     /\ SubresourceValid
     /\ call.err = "")
        => FinalSegmentName = call.args.subresource

\* C8: game and games, asked for leagues or players with the keys absent
\* or empty, fail with the missing-keys error and issue no fetch.
C8_MissingKeysRejected ==
    (/\ call.op \in {"game", "games"}
     /\ call.args.subresource \in {"leagues", "players"}
     /\ ~TruthyL(call.args.keys))
        => (call.err = "MissingKeys" /\ call.fetches = <<>>)

\* C9: a constructed session never holds a missing game key: an unknown
\* (sport, season) pair is a hard error of the constructor.
C9_GameKeyNeverMissing ==
    phase = "ready" => Truthy(game_key)

\* C17: every request query() sends carries the access token that is
\* current when it is sent; the retry after a refresh carries the refreshed
\* token, never the rejected one.
C17_RequestsCarryCurrentToken ==
    \A i \in 1..Len(call.fetches) :
        call.fetches[i].token = call.fetches[i].current

\* the last ";"-separated part of the last path segment of the URL
FinalPart == Last(Last(call.url))

\* C18: roster() with a roster_date composes a URL that ends with ";date="
\* and the supplied date; without one the URL carries no date parameter.
C18_RosterDateInUrl ==
    (call.op = "roster" /\ call.err = "")
        => IF Truthy(call.args.roster_date)
           THEN FinalPart = "date=" \o call.args.roster_date.s
           ELSE Len(Last(call.url)) = 1

-----------------------------------------------------------------------------
(* _filtstr as a pure function: SpecFilt *)

FiltKeyInputs == {"count", "sort", "start", "status"}
FiltValueInputs == {PyInt(1), PyStr("A")}
FiltDicts == DictsUpTo(FiltKeyInputs, FiltValueInputs, MaxFilters)

InitFiltInputs ==
    /\ filt_a \in FiltDicts
    /\ filt_b \in FiltDicts
    /\ filt_out = <<>>

\* both dicts are serialised
Filtstr ==
    /\ filt_out = <<>>
    /\ filt_out' = <<_filtstr(filt_a), _filtstr(filt_b)>>
    /\ UNCHANGED <<filt_a, filt_b, routerVars, parserVars>>

InitFiltSpec == InitRouter /\ InitFiltInputs /\ InitParser

SpecFilt == InitFiltSpec /\ [][Filtstr]_vars

\* the (key, value) pairs of a dict, whatever their insertion order
PairSet(d) == {d.items[i] : i \in 1..Len(d.items)}

\* the "k=v" strings of a dict, listed by ascending key
AscendingPairs(d) ==
    LET n == Len(d.items)
        p == CHOOSE f \in [1..n -> 1..n] :
                 /\ \A i, j \in 1..n : i # j => f[i] # f[j]
                 /\ \A i, j \in 1..n :
                        i < j => StrLess(d.items[f[i]].k, d.items[f[j]].k)
    IN [i \in 1..n |-> d.items[p[i]].k \o "=" \o d.items[p[i]].v.s]

\* C7: two filter dicts with the same (key, value) pairs serialise to the
\* same string, whatever their insertion order, and that string lists the
\* k=v pairs by ascending key, joined by commas.
C7_FiltstrOrderIndependent ==
    filt_out # <<>> =>
        /\ (PairSet(filt_a) = PairSet(filt_b) => filt_out[1] = filt_out[2])
        /\ filt_out[1] = JoinStr(AscendingPairs(filt_a), ",")

\* two dicts with the same pairs in different insertion orders, serialised
C7_Witness ==
    /\ filt_out # <<>>
    /\ PairSet(filt_a) = PairSet(filt_b)
    /\ filt_a # filt_b
    /\ filt_out[1] = filt_out[2]

-----------------------------------------------------------------------------
(* The Parser.  A document is the tree ET.fromstring() builds, cut down to *)
(* what the parse methods look at: its player elements and its             *)
(* standings/teams/team elements, in document order.  A child that find()  *)
(* looks up is <<>> when the element lacks it and <<x>> when it has it.    *)

\* Parser._stat_ids
_stat_ids ==
    (0 :> "games_played") @@ (5 :> "fgp") @@ (7 :> "ftm") @@ (10 :> "tpm") @@
    (12 :> "pts") @@ (15 :> "reb") @@ (16 :> "ast") @@ (17 :> "stl") @@
    (18 :> "blk") @@ (19 :> "tov")

\* a variant that tests the id, not the name: id 0 is lost
_stat_name_falsy_id(stat_id) ==
    IF stat_id # 0 /\ stat_id \in DOMAIN _stat_ids
    THEN PyStr(_stat_ids[stat_id]) ELSE None

\* self._stat_ids.get(stat_id)
_stat_name(stat_id) ==
    IF stat_id \in DOMAIN _stat_ids THEN PyStr(_stat_ids[stat_id]) ELSE None

\* int(text) on the stat_id texts of the documents
IntOf(text) ==
    CASE text = "0" -> 0
      [] text = "12" -> 12
      [] text = "999" -> 999

\* str.upper() on the team abbreviations of the documents
Upper(text) ==
    CASE text = "Bos" -> "BOS"
      [] text = "LAL" -> "LAL"

\* d[k] = v on a record (a function from field names to values)
Put(rec, k, v) ==
    [x \in DOMAIN rec \cup {k} |-> IF x = k THEN v ELSE rec[x]]

RECURSIVE ExpandStats(_, _, _)
\* the loop over a stats block: each stat whose id has a name sets the
\* field named by it (plus the suffix) to the stat's value text
ExpandStats(rec, stats, suffix) ==
    IF Len(stats) = 0 THEN rec
    ELSE LET stat == Head(stats)
             stat_id == IntOf(stat.stat_id)
             stat_name == _stat_name(stat_id)
         IN ExpandStats(
                IF Truthy(stat_name)
                THEN Put(rec, stat_name.s \o suffix, stat.value)
                ELSE rec,
                Tail(stats), suffix)

\* one pass of the loop of player_stats: the record of one player, or the
\* exception a missing child raises
PlayerStatsRecord(pl) ==
    IF pl.player_key = <<>> \/ pl.full = <<>>
       \/ pl.eligible_positions = <<>> \/ pl.team = <<>>
    THEN [err |-> "AttributeError", rec |-> <<>>]
    ELSE IF pl.stats = <<>>
    THEN [err |-> "TypeError", rec |-> <<>>]
    ELSE LET player_d ==
                 ("player_key" :> PyStr(pl.player_key[1])) @@
                 ("player_name" :> PyStr(pl.full[1])) @@
                 ("eligible_positions" :>
                      PyStr(JoinStr(pl.eligible_positions[1], ", "))) @@
                 ("team" :> PyStr(Upper(pl.team[1])))
         IN [err |-> "", rec |-> ExpandStats(player_d, pl.stats[1], "")]

\* a variant of the loop of league_free_agents that walks the stats block
\* of the player as player_stats does
FreeAgentRecord_with_stats(pl) == PlayerStatsRecord(pl)

\* one pass of the loop of league_free_agents: the four fields and no more;
\* the player_stats child is never looked up
FreeAgentRecord(pl) ==
    IF pl.player_key = <<>> \/ pl.full = <<>>
       \/ pl.eligible_positions = <<>> \/ pl.team = <<>>
    THEN [err |-> "AttributeError", rec |-> <<>>]
    ELSE [err |-> "",
          rec |-> ("player_key" :> PyStr(pl.player_key[1])) @@
                  ("player_name" :> PyStr(pl.full[1])) @@
                  ("eligible_positions" :>
                       PyStr(JoinStr(pl.eligible_positions[1], ", "))) @@
                  ("team" :> PyStr(Upper(pl.team[1])))]

\* one pass of the loop of league_standings
StandingsRecord(tm) ==
    IF tm.team_key = <<>> \/ tm.name = <<>> \/ tm.rank = <<>>
       \/ tm.points_for = <<>>
    THEN [err |-> "AttributeError", rec |-> <<>>]
    ELSE IF tm.team_stats = <<>> \/ tm.team_points = <<>>
    THEN [err |-> "TypeError", rec |-> <<>>]
    ELSE LET team_d ==
                 ("team_key" :> PyStr(tm.team_key[1])) @@
                 ("team_name" :> PyStr(tm.name[1])) @@
                 ("rank" :> PyStr(tm.rank[1])) @@
                 ("points_for" :> PyStr(tm.points_for[1]))
         IN [err |-> "",
             rec |-> ExpandStats(ExpandStats(team_d, tm.team_stats[1], ""),
                                 tm.team_points[1], "_pts")]

RECURSIVE Collect_partial(_, _, _)
\* a variant of the loop that stops at the first exception and hands back
\* the records made so far
Collect_partial(elems, kind, vals) ==
    IF Len(elems) = 0 THEN [kind |-> kind, err |-> "", records |-> vals]
    ELSE LET r == CASE kind = "player_stats" ->
                           PlayerStatsRecord(Head(elems))
                    [] kind = "league_free_agents" ->
                           FreeAgentRecord(Head(elems))
                    [] OTHER -> StandingsRecord(Head(elems))
         IN IF r.err # ""
            THEN [kind |-> kind, err |-> "", records |-> vals]
            ELSE Collect_partial(Tail(elems), kind, Append(vals, r.rec))

RECURSIVE Collect(_, _, _)
\* the for loop over the matched elements: the records so far, or the first
\* exception, which ends the call
Collect(elems, kind, vals) ==
    IF Len(elems) = 0 THEN [kind |-> kind, err |-> "", records |-> vals]
    ELSE LET r == CASE kind = "player_stats" ->
                           PlayerStatsRecord(Head(elems))
                    [] kind = "league_free_agents" ->
                           FreeAgentRecord(Head(elems))
                    [] OTHER -> StandingsRecord(Head(elems))
         IN IF r.err # ""
            THEN [kind |-> kind, err |-> r.err, records |-> <<>>]
            ELSE Collect(Tail(elems), kind, Append(vals, r.rec))

\* Parser.player_stats(content)
parse_player_stats(doc) == Collect(doc.players, "player_stats", <<>>)

\* Parser.league_standings(content)
parse_league_standings(doc) == Collect(doc.teams, "league_standings", <<>>)

\* Parser.league_free_agents(content)
parse_league_free_agents(doc) ==
    Collect(doc.players, "league_free_agents", <<>>)

\* a variant that stores whatever the call produced, raised or not
Cache_on_failure(d, r) == Put(d, r.kind, r.records)

\* self.data[kind] = vals, reached only when nothing was raised
Cache(d, r) ==
    IF r.err = "" THEN Put(d, r.kind, r.records) ELSE d

-----------------------------------------------------------------------------
(* The flat kinds and user_leagues walk the element tree itself.  An       *)
(* element is its tag, its text (None for an empty element) and its        *)
(* children in document order.                                             *)

Leaf(tag, text) == [tag |-> tag, text |-> PyStr(text), kids |-> <<>>]
Node(tag, kids) == [tag |-> tag, text |-> None, kids |-> kids]

RECURSIVE iter(_, _)
RECURSIVE iterAll(_, _)
\* Element.iter(tag): the element itself and its descendants that carry the
\* tag, in document order
iter(e, tag) ==
    (IF e.tag = tag THEN <<e>> ELSE <<>>) \o iterAll(e.kids, tag)

\* the same over a sequence of sibling elements
iterAll(kids, tag) ==
    IF Len(kids) = 0 THEN <<>>
    ELSE iter(Head(kids), tag) \o iterAll(Tail(kids), tag)

\* Element.findall(".//tag"): the descendants that carry the tag, in
\* document order; the element itself is not among them
findall(e, tag) == iterAll(e.kids, tag)

\* Element.find(tag): <<the first child with the tag>>, or <<>> for None
find(e, tag) ==
    LET at == {i \in 1..Len(e.kids) : e.kids[i].tag = tag}
    IN IF at = {} THEN <<>>
       ELSE <<e.kids[CHOOSE i \in at : \A j \in at : i <= j]>>

RECURSIVE ChildDict_first_wins(_, _)
\* a variant of the dict comprehension that keeps the first child of a tag
ChildDict_first_wins(kids, rec) ==
    IF Len(kids) = 0 THEN rec
    ELSE ChildDict_first_wins(
             Tail(kids),
             IF Head(kids).tag \in DOMAIN rec THEN rec
             ELSE Put(rec, Head(kids).tag, Head(kids).text))

RECURSIVE ChildDict(_, _)
\* {child.tag: child.text for child in element}, built child by child: a
\* later child with the same tag replaces the earlier one
ChildDict(kids, rec) ==
    IF Len(kids) = 0 THEN rec
    ELSE ChildDict(Tail(kids), Put(rec, Head(kids).tag, Head(kids).text))

\* [{child.tag: child.text for child in e} for e in elems]
Records(elems) == [i \in 1..Len(elems) |-> ChildDict(elems[i].kids, <<>>)]

\* Parser.game(content), on the parsed tree
parse_game(doc) ==
    [kind |-> "game", err |-> "", records |-> Records(iter(doc.root, "game"))]

\* Parser.leagues(content), on the parsed tree
parse_leagues(doc) ==
    [kind |-> "leagues", err |-> "",
     records |-> Records(iter(doc.root, "league"))]

\* a variant of str() that hands its argument back as it is
str_unconverted(v) == v

\* str(v)
str(v) == PyStr(v.s)

RECURSIVE UserLeaguesLoop(_, _, _)
\* the loop of user_leagues over the game elements: the leagues of each
\* game whose game_key text is str(game_key); a game with no game_key
\* child ends the call with an AttributeError
UserLeaguesLoop(nodes, gk, vals) ==
    IF Len(nodes) = 0
    THEN [kind |-> "user_leagues", err |-> "", records |-> vals]
    ELSE LET node == Head(nodes)
             k == find(node, "game_key")
         IN IF k = <<>>
            THEN [kind |-> "user_leagues", err |-> "AttributeError",
                  records |-> <<>>]
            ELSE UserLeaguesLoop(
                     Tail(nodes), gk,
                     IF k[1].text = str(gk)
                     THEN vals \o Records(findall(node, "league"))
                     ELSE vals)

\* Parser.user_leagues(content, game_key), on the parsed tree
parse_user_leagues(doc, gk) ==
    UserLeaguesLoop(findall(doc.root, "game"), gk, <<>>)

\* ET.fromstring(Parser._strip_ns(content)) and what follows it: a text
\* that is not well-formed XML ends the call with a ParseError
fromstring(doc, kind, r) ==
    IF doc.wellformed THEN r
    ELSE [kind |-> kind, err |-> "ParseError", records |-> <<>>]

-----------------------------------------------------------------------------
(* The stats blocks as inputs: SpecStats *)

StatIdTexts == {"0", "12", "999"}
StatValueTexts == {PyStr("24.5"), PyStr("1")}
StatEntries == [stat_id : StatIdTexts, value : StatValueTexts]
StatsBlocks == SeqsUpTo(StatEntries, MaxStats)

\* a well-formed player but for its stats block, which may be absent
PlayerElem(stats) ==
    [player_key |-> <<"385.p.1">>, full |-> <<"A Player">>,
     eligible_positions |-> <<<<"PG", "SG">>>>, team |-> <<"Bos">>,
     stats |-> stats]

TeamElem(team_stats, team_points) ==
    [team_key |-> <<"385.l.1.t.1">>, name |-> <<"A Team">>, rank |-> <<"1">>,
     points_for |-> <<"50">>, team_stats |-> team_stats,
     team_points |-> team_points]

SecondPlayer == PlayerElem(<<<<[stat_id |-> "12", value |-> PyStr("7")]>>>>)

PlayerDocs ==
    {[players |-> ps, teams |-> <<>>] : ps \in
        {<<>>} \cup {<<PlayerElem(<<>>)>>}
        \cup {<<PlayerElem(<<b>>)>> : b \in StatsBlocks}
        \cup {<<PlayerElem(<<b>>), SecondPlayer>> : b \in StatsBlocks}}

TeamDocs ==
    {[players |-> <<>>, teams |-> <<TeamElem(<<>>, <<<<>>>>)>>]} \cup
    {[players |-> <<>>, teams |-> <<TeamElem(<<b>>, <<c>>)>>] :
        b \in StatsBlocks, c \in StatsBlocks}

InitStats ==
    /\ content \in PlayerDocs \cup TeamDocs
    /\ key_arg = None
    /\ parsed = NotParsed
    /\ data = <<>>
    /\ parses = 0
    /\ threads = [t \in Threads |-> NoThread]

Parse(r) ==
    /\ parsed = NotParsed
    /\ parsed' = r
    /\ data' = Cache(data, r)
    /\ UNCHANGED <<content, key_arg, parses, threads, routerVars, filtVars>>

ParsePlayerStats == Parse(parse_player_stats(content))

ParseLeagueStandings == Parse(parse_league_standings(content))

NextStats == ParsePlayerStats \/ ParseLeagueStandings

InitStatsSpec == InitRouter /\ InitFilt /\ InitStats

SpecStats == InitStatsSpec /\ [][NextStats]_vars

-----------------------------------------------------------------------------
(* Claims about the stats blocks, checked under SpecStats *)

\* the elements the parse call walked, in document order
Elems == IF parsed.kind = "player_stats" THEN content.players ELSE content.teams

\* the fields every record of the kind starts with
BaseFields ==
    IF parsed.kind = "player_stats"
    THEN {"player_key", "player_name", "eligible_positions", "team"}
    ELSE {"team_key", "team_name", "rank", "points_for"}

\* every child the parse call looks up in the element is there
Complete(e) ==
    IF parsed.kind = "player_stats" THEN e.stats # <<>>
    ELSE e.team_stats # <<>> /\ e.team_points # <<>>

\* the stats blocks of an element, each with the suffix of its field names
Blocks(e) ==
    IF parsed.kind = "player_stats"
    THEN {[stats |-> e.stats[1], suffix |-> ""]}
    ELSE {[stats |-> e.team_stats[1], suffix |-> ""],
          [stats |-> e.team_points[1], suffix |-> "_pts"]}

InCatalog(stat) == IntOf(stat.stat_id) \in DOMAIN _stat_ids
CatalogName(stat) == _stat_ids[IntOf(stat.stat_id)]

\* the value text of the last entry of the block with the id of stat
LastValue(stats, stat) ==
    LET j == CHOOSE k \in 1..Len(stats) :
                 /\ IntOf(stats[k].stat_id) = IntOf(stat.stat_id)
                 /\ \A m \in (k + 1)..Len(stats) :
                        IntOf(stats[m].stat_id) # IntOf(stat.stat_id)
    IN stats[j].value

\* the positions of the entries of a block whose id is in the catalog
CatalogEntries(stats) == {j \in 1..Len(stats) : InCatalog(stats[j])}

Parsed == parsed.kind # ""

\* C10 as stated: every entry whose id is in the catalog gives the record a
\* field with the catalog name holding that entry's value; an entry whose
\* id is not in the catalog gives no field and raises no error.
C10_CatalogNameHoldsEntryValue ==
    Parsed =>
        /\ (\A i \in 1..Len(Elems) : Complete(Elems[i])) => parsed.err = ""
        /\ parsed.err = "" =>
              \A i \in 1..Len(Elems) :
                  LET rec == parsed.records[i] IN
                  /\ \A b \in Blocks(Elems[i]) : \A j \in 1..Len(b.stats) :
                        InCatalog(b.stats[j]) =>
                            /\ CatalogName(b.stats[j]) \in DOMAIN rec
                            /\ rec[CatalogName(b.stats[j])] = b.stats[j].value
                  /\ DOMAIN rec = BaseFields \cup
                        UNION {{CatalogName(b.stats[j]) : j \in CatalogEntries(b.stats)} :
                                  b \in Blocks(Elems[i])}

\* C10 as the code has it: the field is named by the catalog name, with
\* "_pts" appended for the entries of a team_points block, and holds the
\* value text of the last entry of its block with that id; the record has
\* no other fields but the fixed ones, and an id outside the catalog raises
\* no error.
C10_StatFieldsFollowCatalog ==
    Parsed =>
        /\ (\A i \in 1..Len(Elems) : Complete(Elems[i])) => parsed.err = ""
        /\ parsed.err = "" =>
              /\ Len(parsed.records) = Len(Elems)
              /\ \A i \in 1..Len(Elems) :
                  LET rec == parsed.records[i] IN
                  /\ \A b \in Blocks(Elems[i]) : \A j \in 1..Len(b.stats) :
                        InCatalog(b.stats[j]) =>
                            /\ CatalogName(b.stats[j]) \o b.suffix \in DOMAIN rec
                            /\ rec[CatalogName(b.stats[j]) \o b.suffix]
                                   = LastValue(b.stats, b.stats[j])
                  /\ DOMAIN rec = BaseFields \cup
                        UNION {{CatalogName(b.stats[j]) \o b.suffix :
                                    j \in CatalogEntries(b.stats)} :
                                  b \in Blocks(Elems[i])}

\* a standings record made from a block holding id 0 and an unknown id
C10_Witness ==
    /\ parsed.kind = "league_standings"
    /\ parsed.err = ""
    /\ Len(parsed.records) = 1
    /\ \E j, k \in 1..Len(content.teams[1].team_stats[1]) :
          /\ content.teams[1].team_stats[1][j].stat_id = "0"
          /\ content.teams[1].team_stats[1][k].stat_id = "999"
    /\ \E j \in 1..Len(content.teams[1].team_points[1]) :
          content.teams[1].team_points[1][j].stat_id = "12"
    /\ "games_played" \in DOMAIN parsed.records[1]
    /\ "pts_pts" \in DOMAIN parsed.records[1]

-----------------------------------------------------------------------------
(* One Parser, called again and again: SpecParser.  The documents are a    *)
(* fixed set of hand-built fixtures.                                       *)

League1 == Node("league", <<Leaf("league_key", "385.l.1"), Leaf("name", "One")>>)

\* a league whose name element is empty: its text is None
League2 == Node("league", <<Leaf("league_key", "385.l.2"), Node("name", <<>>)>>)

\* a league with two children of the same tag, and text with blanks
League3 ==
    Node("league", <<Leaf("league_key", "375.l.9"), Leaf("name", " old "),
                     Leaf("name", "Older")>>)

Game385 ==
    Node("game", <<Leaf("game_key", "385"), Leaf("code", "nba"),
                   Node("leagues", <<League1, League2>>)>>)

Game375 ==
    Node("game", <<Leaf("game_key", "375"), Leaf("code", "nba"),
                   Node("leagues", <<League3>>)>>)

\* a game element with no game_key child
GameNoKey ==
    Node("game",
         <<Leaf("code", "nfl"),
           Node("leagues", <<Node("league", <<Leaf("league_key", "380.l.4")>>)>>)>>)

\* a document: the children of its root element, and its player and team
\* elements
Doc(kids, ps, ts) ==
    [wellformed |-> TRUE, root |-> Node("fantasy_content", kids),
     players |-> ps, teams |-> ts]

\* a text that is not XML
Malformed == [Doc(<<>>, <<>>, <<>>) EXCEPT !.wellformed = FALSE]

TreeDocs ==
    {Malformed} \cup
    {Doc(kids, <<>>, <<>>) : kids \in
        {<<>>, <<Game385>>, <<Game375, Game385>>, <<Game385, Game375>>,
         <<Game385, Game385>>, <<Game385, GameNoKey>>,
         <<Node("league", <<Leaf("league_key", "385.l.5")>>), Game385>>}}

StatsFixture ==
    <<[stat_id |-> "12", value |-> PyStr("24.5")],
      [stat_id |-> "999", value |-> PyStr("1")]>>

\* a player with a stats block
StatsPlayer == PlayerElem(<<StatsFixture>>)

\* a player with no name/full
NoFullPlayer == [StatsPlayer EXCEPT !.full = <<>>]

PlayerFixtures ==
    {Malformed} \cup
    {Doc(<<>>, ps, <<>>) : ps \in
        {<<PlayerElem(<<>>)>>, <<StatsPlayer>>, <<StatsPlayer, SecondPlayer>>,
         <<StatsPlayer, NoFullPlayer>>}}

GoodTeam == TeamElem(<<StatsFixture>>, <<StatsFixture>>)

\* one team, or one team and then a team with no team_standings/rank
TeamFixtures ==
    {Malformed} \cup
    {Doc(<<>>, <<>>, ts) : ts \in
        {<<GoodTeam>>, <<GoodTeam, [GoodTeam EXCEPT !.rank = <<>>]>>}}

\* one parse call, from ET.fromstring to the return (or the exception)
ParserCall(doc, gk, kind, r) ==
    /\ content' = doc
    /\ key_arg' = gk
    /\ parsed' = fromstring(doc, kind, r)
    /\ data' = Cache(data, fromstring(doc, kind, r))
    /\ parses' = parses + 1
    /\ UNCHANGED <<threads, routerVars, filtVars>>

ParserGame ==
    /\ parses < MaxParses
    /\ \E doc \in TreeDocs : ParserCall(doc, None, "game", parse_game(doc))

ParserLeagues ==
    /\ parses < MaxParses
    /\ \E doc \in TreeDocs : ParserCall(doc, None, "leagues", parse_leagues(doc))

ParserUserLeagues ==
    /\ parses < MaxParses
    /\ \E doc \in TreeDocs, gk \in {PyInt(385), PyInt(375)} :
           ParserCall(doc, gk, "user_leagues", parse_user_leagues(doc, gk))

ParserLeagueFreeAgents ==
    /\ parses < MaxParses
    /\ \E doc \in PlayerFixtures :
           ParserCall(doc, None, "league_free_agents", parse_league_free_agents(doc))

ParserPlayerStats ==
    /\ parses < MaxParses
    /\ \E doc \in PlayerFixtures :
           ParserCall(doc, None, "player_stats", parse_player_stats(doc))

ParserLeagueStandings ==
    /\ parses < MaxParses
    /\ \E doc \in TeamFixtures :
           ParserCall(doc, None, "league_standings", parse_league_standings(doc))

NextParser ==
    \/ ParserGame \/ ParserLeagues \/ ParserUserLeagues
    \/ ParserLeagueFreeAgents \/ ParserPlayerStats \/ ParserLeagueStandings

InitParserSpec == InitRouter /\ InitFilt /\ InitParser

SpecParser == InitParserSpec /\ [][NextParser]_vars

-----------------------------------------------------------------------------
(* Claims about the Parser, checked under SpecParser *)

RECURSIVE DocOrder(_)
RECURSIVE DocOrderAll(_)
\* every element of a tree, in document order
DocOrder(e) == <<e>> \o DocOrderAll(e.kids)
DocOrderAll(kids) ==
    IF Len(kids) = 0 THEN <<>>
    ELSE DocOrder(Head(kids)) \o DocOrderAll(Tail(kids))

\* the elements of the document that carry the tag, in document order
Matching(tag) == SelectSeq(DocOrder(content.root), LAMBDA x : x.tag = tag)

\* the tag names of the immediate children of an element
ChildTags(e) == {e.kids[i].tag : i \in 1..Len(e.kids)}

\* the text of the last immediate child that carries the tag
ChildText(e, tag) ==
    LET at == {i \in 1..Len(e.kids) : e.kids[i].tag = tag}
    IN e.kids[CHOOSE i \in at : \A j \in at : j <= i].text

\* the record of an element: its children's tags, each with its text
FieldsOf(e) == [f \in ChildTags(e) |-> ChildText(e, f)]

PlayerFields == {"player_key", "player_name", "eligible_positions", "team"}

\* the entries of the stats block of a player, if it has one
StatsOf(pl) == IF pl.stats = <<>> THEN <<>> ELSE pl.stats[1]

FreeAgentsParsed == parsed.kind = "league_free_agents" /\ parsed.err = ""

\* C11 as stated: every free-agent record has the four fields and one field
\* per nested stat entry whose id is in the catalog.
C11_FreeAgentFieldsWithStats ==
    FreeAgentsParsed =>
        \A i \in 1..Len(parsed.records) :
            /\ PlayerFields \subseteq DOMAIN parsed.records[i]
            /\ \A j \in 1..Len(StatsOf(content.players[i])) :
                  InCatalog(StatsOf(content.players[i])[j]) =>
                      CatalogName(StatsOf(content.players[i])[j])
                          \in DOMAIN parsed.records[i]

\* C11 as the code has it: there is one record per player, and its fields
\* are exactly the four; a nested stat entry contributes no field.
C11_FreeAgentFieldsAreTheFour ==
    FreeAgentsParsed =>
        /\ Len(parsed.records) = Len(content.players)
        /\ \A i \in 1..Len(parsed.records) :
              /\ DOMAIN parsed.records[i] = PlayerFields
              /\ parsed.records[i]["player_key"]
                     = PyStr(content.players[i].player_key[1])
              /\ parsed.records[i]["player_name"]
                     = PyStr(content.players[i].full[1])

\* free agents parsed from a player that has a stat entry of the catalog
C11_Witness ==
    /\ FreeAgentsParsed
    /\ Len(parsed.records) >= 1
    /\ \E j \in 1..Len(StatsOf(content.players[1])) :
          InCatalog(StatsOf(content.players[1])[j])
    /\ DOMAIN parsed.records[1] = PlayerFields

\* the key text of a game element, <<>> if it has no game_key child
KeyText(g) ==
    LET at == {i \in 1..Len(g.kids) : g.kids[i].tag = "game_key"}
    IN IF at = {} THEN <<>>
       ELSE <<g.kids[CHOOSE i \in at : \A j \in at : i <= j].text>>

\* the game elements whose game_key text is the key argument as a string
MatchingGames ==
    SelectSeq(Matching("game"),
              LAMBDA g : KeyText(g) = <<PyStr(key_arg.s)>>)

\* element l lies below element g
Below(l, g) == \E i \in 2..Len(DocOrder(g)) : DocOrder(g)[i] = l

\* the league elements below a matching game, in document order
LeaguesOfKey ==
    SelectSeq(Matching("league"),
              LAMBDA l : \E i \in 1..Len(MatchingGames) :
                             Below(l, MatchingGames[i]))

UserLeaguesCalled == parsed.kind = "user_leagues" /\ content.wellformed

\* C12: user_leagues with game key K returns the records of exactly the
\* league elements below a game element whose game_key text is str(K), in
\* document order, whenever every game element has a game_key child.
C12_UserLeaguesOfKeyOnly ==
    (/\ UserLeaguesCalled
     /\ \A i \in 1..Len(Matching("game")) : KeyText(Matching("game")[i]) # <<>>)
        => /\ parsed.err = ""
           /\ parsed.records =
                  [i \in 1..Len(LeaguesOfKey) |-> FieldsOf(LeaguesOfKey[i])]

\* key 385 asked of a document with a 375 game and a 385 game
C12_Witness ==
    /\ UserLeaguesCalled
    /\ key_arg = PyInt(385)
    /\ content.root.kids = <<Game375, Game385>>
    /\ parsed.records = <<FieldsOf(League1), FieldsOf(League2)>>

CompoundKinds ==
    {"league_free_agents", "player_stats", "league_standings", "user_leagues"}

\* the player element lacks a child the walk looks up at a fixed path
PlayerLacks(pl, kind) ==
    \/ pl.player_key = <<>> \/ pl.full = <<>>
    \/ pl.eligible_positions = <<>> \/ pl.team = <<>>
    \/ (kind = "player_stats" /\ pl.stats = <<>>)

TeamLacks(tm) ==
    \/ tm.team_key = <<>> \/ tm.name = <<>> \/ tm.rank = <<>>
    \/ tm.points_for = <<>> \/ tm.team_stats = <<>> \/ tm.team_points = <<>>

\* some element the call matches lacks a mandatory child
SomeElementLacks ==
    CASE parsed.kind \in {"league_free_agents", "player_stats"} ->
             \E i \in 1..Len(content.players) :
                 PlayerLacks(content.players[i], parsed.kind)
      [] parsed.kind = "league_standings" ->
             \E i \in 1..Len(content.teams) : TeamLacks(content.teams[i])
      [] parsed.kind = "user_leagues" ->
             \E i \in 1..Len(Matching("game")) :
                 KeyText(Matching("game")[i]) = <<>>
      [] OTHER -> FALSE

\* C13: in the compound kinds, an element that lacks a mandatory child
\* fails the whole call with an error and no records are returned, those
\* of the well-formed elements before it included.
C13_MissingFieldFailsWholeCall ==
    (parsed.kind \in CompoundKinds /\ content.wellformed /\ SomeElementLacks)
        => (parsed.err # "" /\ parsed.records = <<>>)

\* a well-formed player followed by one with no name/full
C13_Witness ==
    /\ parsed.kind = "player_stats"
    /\ content.players = <<StatsPlayer, NoFullPlayer>>
    /\ parsed.err = "AttributeError"
    /\ parsed.records = <<>>

FlatTag == IF parsed.kind = "game" THEN "game" ELSE "league"

\* C14: game and leagues give one record per element of that tag, in
\* document order, whose fields are exactly the tags of the element's
\* immediate children, each holding that child's text unchanged.
C14_FlatRecordsMirrorChildren ==
    (parsed.kind \in {"game", "leagues"} /\ content.wellformed)
        => /\ parsed.err = ""
           /\ Len(parsed.records) = Len(Matching(FlatTag))
           /\ \A i \in 1..Len(parsed.records) :
                 /\ DOMAIN parsed.records[i] = ChildTags(Matching(FlatTag)[i])
                 /\ parsed.records[i] = FieldsOf(Matching(FlatTag)[i])

\* leagues parsed from a document with three leagues below two games
C14_Witness ==
    /\ parsed.kind = "leagues"
    /\ content.root.kids = <<Game375, Game385>>
    /\ Len(parsed.records) = 3
    /\ parsed.records[1] =
           ("league_key" :> PyStr("375.l.9")) @@ ("name" :> PyStr("Older"))
    /\ parsed.records[3] =
           ("league_key" :> PyStr("385.l.2")) @@ ("name" :> None)

Kinds ==
    {"game", "leagues", "user_leagues", "league_free_agents", "player_stats",
     "league_standings"}

\* the cache entry of a kind: <<records>>, or <<>> when there is none
Entry(d, k) == IF k \in DOMAIN d THEN <<d[k]>> ELSE <<>>

\* C16: a successful parse of a kind sets the cache entry of that kind to
\* the records it returned and leaves the other entries as they were; a
\* failing parse leaves every entry as it was.
C16_CacheHoldsLastSuccess ==
    [][\A k \in Kinds :
          Entry(data', k) =
              IF parsed'.kind = k /\ parsed'.err = ""
              THEN <<parsed'.records>>
              ELSE Entry(data, k)]_vars

\* a failing parse of a kind whose entry an earlier parse had filled
C16_Witness ==
    /\ parses = 2
    /\ parsed.err # ""
    /\ parsed.kind \in DOMAIN data
    /\ Len(data[parsed.kind]) > 0

-----------------------------------------------------------------------------
(* Two threads on one Parser: SpecThreads.  A parse method works on locals *)
(* (root, vals) up to its last two statements: the assignment              *)
(* self.data[kind] = vals, the one access to state the threads share, and  *)
(* the return.  A thread is preempted between them.                        *)

ThreadCalls ==
    {[kind |-> "leagues", doc |-> Doc(<<Game385>>, <<>>, <<>>),
      gk |-> None],
     [kind |-> "leagues", doc |-> Doc(<<Game375, Game385>>, <<>>, <<>>),
      gk |-> None],
     [kind |-> "leagues", doc |-> Malformed, gk |-> None],
     [kind |-> "user_leagues",
      doc |-> Doc(<<Game375, Game385>>, <<>>, <<>>), gk |-> PyInt(385)],
     [kind |-> "player_stats", doc |-> Doc(<<>>, <<StatsPlayer>>, <<>>),
      gk |-> None],
     [kind |-> "player_stats",
      doc |-> Doc(<<>>, <<StatsPlayer, NoFullPlayer>>, <<>>),
      gk |-> None]}

\* the parse method of the kind, up to the end of its loop
ParseOf(c) ==
    fromstring(c.doc, c.kind,
               CASE c.kind = "leagues" -> parse_leagues(c.doc)
                 [] c.kind = "user_leagues" -> parse_user_leagues(c.doc, c.gk)
                 [] c.kind = "player_stats" -> parse_player_stats(c.doc))

\* thread t calls a parse method, which runs to the end of its loop or
\* raises
Begin(t) ==
    /\ threads[t].pc = "idle"
    /\ \E c \in ThreadCalls :
           threads' = [threads EXCEPT ![t] =
               [pc |-> IF ParseOf(c).err = "" THEN "built" ELSE "raised",
                doc |-> c.doc, gk |-> c.gk, result |-> ParseOf(c)]]
    /\ UNCHANGED <<content, key_arg, parsed, data, parses, routerVars,
                   filtVars>>

\* self.data[kind] = vals
Store(t) ==
    /\ threads[t].pc = "built"
    /\ data' = Cache(data, threads[t].result)
    /\ threads' = [threads EXCEPT ![t].pc = "stored"]
    /\ UNCHANGED <<content, key_arg, parsed, parses, routerVars, filtVars>>

\* return vals
Return(t) ==
    /\ threads[t].pc = "stored"
    /\ threads' = [threads EXCEPT ![t].pc = "returned"]
    /\ UNCHANGED <<content, key_arg, parsed, data, parses, routerVars,
                   filtVars>>

NextThreads == \E t \in Threads : Begin(t) \/ Store(t) \/ Return(t)

SpecThreads == InitParserSpec /\ [][NextThreads]_vars

\* C15: calls made concurrently on one instance do not interfere: a call
\* that has got past its parse holds the records it would return alone,
\* and what a call has written is not overwritten by another call while
\* the first is still under way.
C15_ConcurrentCallsDoNotInterfere ==
    \A t \in Threads :
        /\ threads[t].pc \in {"built", "stored", "returned"} =>
               threads[t].result =
                   ParseOf([kind |-> threads[t].result.kind,
                            doc |-> threads[t].doc, gk |-> threads[t].gk])
        /\ threads[t].pc = "stored" =>
               Entry(data, threads[t].result.kind)
                   = <<threads[t].result.records>>

====
